---------------------------- MODULE Spec2Model ----------------------------
(***************************************************************************)
(* Model of driver/my_mmap_drv.c: a misc device whose open() allocates one *)
(* page and a struct mmap_info, whose mmap() installs my_vm_ops on the VMA *)
(* and whose fault handler hands the page out one fault at a time.         *)
(*                                                                         *)
(* Memory is modelled by address.  A page frame p lives at kernel virtual  *)
(* address p * PAGE_SIZE; its bytes are a map from the offsets that have   *)
(* been written to the byte written (get_zeroed_page leaves every other    *)
(* offset 0).  An offset >= PAGE_SIZE in that map is a byte that the       *)
(* writer put past the end of the page.                                    *)
(*                                                                         *)
(* A kernel-mode store through address 0 traps: the handler does not       *)
(* return (the kernel is built with -fno-delete-null-pointer-checks, so    *)
(* the store is emitted and the hardware faults it).  It is recorded as    *)
(* the return value OOPS.                                                  *)
(*                                                                         *)
(* Spec runs the handlers one at a time.  SpecRace runs my_vma_open and    *)
(* my_vma_close in several contexts, a load and a store of ref each.       *)
(* SpecFault runs my_vma_nopage in several contexts, statement by          *)
(* statement.  SpecPayload runs my_open over the lengths of the node name. *)
(***************************************************************************)
EXTENDS Integers, Sequences, FiniteSets

\* ------------------------------------------------------------ bounds
MaxHandles == 2
MaxRegions == 2
MaxOpens == 1
MaxResolved == 2
MaxMapPages == 1
MaxGarbage == 1
MaxCtx == 2
MaxShortName == 8
NearPage == 4

\* ------------------------------------------------------------ constants
PAGE_SIZE == 4096

NULL == 0

\* const char *msg = "My mmap options implement, this is file: "
msg ==
  << 77, 121, 32, 109, 109, 97, 112, 32, 111, 112, 116, 105, 111, 110, 115,
     32, 105, 109, 112, 108, 101, 109, 101, 110, 116, 44, 32, 116, 104, 105,
     115, 32, 105, 115, 32, 102, 105, 108, 101, 58, 32 >>

\* #define DEVNAME "my_mmap": the name of the device node as registered
DEVNAME == << 109, 121, 95, 109, 109, 97, 112 >>

\* another name the node can be given: "dev0"
OtherName == << 100, 101, 118, 48 >>

VM_FAULT_SIGBUS == "VM_FAULT_SIGBUS"
RET_OK == "0"
OOPS == "oops"

VM_DONTEXPAND == "VM_DONTEXPAND"
VM_DONTDUMP == "VM_DONTDUMP"

\* struct vm_operations_struct my_vm_ops
my_vm_ops ==
  [open |-> "my_vma_open", close |-> "my_vma_close", fault |-> "my_vma_nopage"]

\* ------------------------------------------------------------ domains
Handles == 1..MaxHandles
Regions == 1..MaxRegions
\* the allocators' pools: as many frames and blocks as there are handles
Frames == 1..MaxHandles
Blocks == 1..MaxHandles
Ctxs == 1..MaxCtx

\* what a block returned by kmalloc (not zeroed) may hold in its ref field
GarbageRef == (0 - MaxGarbage)..MaxGarbage

\* filp->f_dentry->d_name.name of each handle: the node it was opened through
NodeName(h) == IF h = 1 THEN DEVNAME ELSE OtherName

\* the vm_flags a VMA arrives with
ArrivalFlags == {"VM_READ", "VM_SHARED"}

\* the page-aligned start of a mapping
MmapStart == 16 * PAGE_SIZE

VARIABLES
  files,     \* struct file per handle: open?, private_data, d_name
  infos,     \* kmalloc'ed struct mmap_info blocks: alloc?, data, ref
  frames,    \* page frames: alloc?, count (struct page _count), mem
  vmas,      \* struct vm_area_struct per mapping region
  last,      \* the last handler run: what it was given and what it returned
  garbage,   \* per block: what its ref field held when kmalloc handed it out
  ctx        \* execution contexts inside my_vma_open / my_vma_close

vars == << files, infos, frames, vmas, last, garbage, ctx >>

\* ------------------------------------------------------------ memory
NoBytes == [i \in {} |-> 0]

strlen(s) == Len(s)

\* memcpy(dst + off, src, n) on the bytes at and after a page's base
memcpy(mem, off, src, n) ==
  [i \in (DOMAIN mem) \cup (off..(off + n - 1)) |->
     IF i \in off..(off + n - 1) THEN src[i - off + 1] ELSE mem[i]]

\* the byte at an offset of a zeroed page
ByteAt(mem, i) == IF i \in DOMAIN mem THEN mem[i] ELSE 0

\* the address of a frame, and the frame of an address
page_address(p) == p * PAGE_SIZE

virt_to_page(addr) == addr \div PAGE_SIZE

\* my_open's two memcpy calls
WritePayload(mem, name) ==
  memcpy(memcpy(mem, 0, msg, strlen(msg)), strlen(msg), name, strlen(name))

\* get_zeroed_page: the frame is taken, zero-filled, with one reference
get_zeroed_page(fr, p) ==
  [fr EXCEPT ![p] = [alloc |-> TRUE, count |-> 1, mem |-> NoBytes]]

\* a fault path that clears the page it hands out
get_page_scribbling(fr, p) ==
  [fr EXCEPT ![p].count = @ + 1, ![p].mem = NoBytes]

\* a fault path that takes its reference twice
get_page_twice(fr, p) == [fr EXCEPT ![p].count = @ + 2]

\* a fault path that forgets to take its reference
get_page_forgotten(fr, p) == fr

\* get_page(page)
get_page(fr, p) == [fr EXCEPT ![p].count = @ + 1]

\* put_page(page), as the platform does when it unmaps a resolved address
put_page(fr, p) == [fr EXCEPT ![p].count = @ - 1]

\* a frame and a block that are not allocated
NoFrame == [alloc |-> FALSE, count |-> 0, mem |-> NoBytes]

NoInfo == [alloc |-> FALSE, data |-> NULL, ref |-> 0]

\* a release that keeps the page
free_page_skipped(fr, addr) == fr

\* free_page(addr): drops the allocation's reference and frees at zero
free_page(fr, addr) ==
  IF addr = NULL THEN fr
  ELSE [fr EXCEPT ![virt_to_page(addr)] =
          IF @.count - 1 > 0 THEN [@ EXCEPT !.count = @ - 1] ELSE NoFrame]

\* kfree(info): what a freed block holds is seen again only as the garbage
\* of a later kmalloc
kfree(inf, b) == IF b = NULL THEN inf ELSE [inf EXCEPT ![b] = NoInfo]

\* an increment that counts the mapping twice
RefIncTwice(v) == v + 2

\* a decrement that is left out
RefDecForgotten(v) == v

\* info->ref++ and info->ref--
RefInc(v) == v + 1

RefDec(v) == v - 1

FreeBlocks == {b \in Blocks : ~infos[b].alloc}

FreeFrames == {p \in Frames : ~frames[p].alloc}

\* ------------------------------------------------------------ regions
NoVma ==
  [state |-> "none", file |-> NULL, vm_start |-> 0, vm_end |-> 0,
   vm_flags |-> {}, vm_ops |-> NULL, vm_private_data |-> NULL,
   interests |-> 0, resolved |-> 0]

\* the interests the platform holds in a region: 1 for the mapping, plus 1
\* for every open it has delivered, minus 1 for every close it has delivered
Interests(r) == vmas[r].interests

Live(r) == vmas[r].state = "live"

\* the count the driver keeps for a region
RefCount(r) == infos[vmas[r].vm_private_data].ref

\* ref is filled in by my_release only: what info->ref held in the block it
\* freed
Record(op, h, r, addr, ret, page) ==
  [op |-> op, h |-> h, vma |-> r, addr |-> addr, ret |-> ret, page |-> page,
   ref |-> 0]

IdleCtx ==
  [pc |-> "idle", op |-> "none", info |-> NULL, tmp |-> 0,
   vma |-> NULL, addr |-> 0, page |-> NULL]

AllIdle == \A c \in Ctxs : ctx[c].pc = "idle"

\* ------------------------------------------------------------ Init
Init ==
  /\ files = [h \in Handles |->
                [open |-> FALSE, private_data |-> NULL, d_name |-> NodeName(h)]]
  /\ infos = [b \in Blocks |-> NoInfo]
  /\ frames = [p \in Frames |-> NoFrame]
  /\ vmas = [r \in Regions |-> NoVma]
  /\ last = Record("init", NULL, NULL, 0, RET_OK, NULL)
  /\ garbage = [b \in Blocks |-> 0]
  /\ ctx = [c \in Ctxs |-> IdleCtx]

\* ------------------------------------------------------------ my_open
\* b is what kmalloc returned, p the frame get_zeroed_page returned (NULL:
\* the allocation failed), g what the block's ref field held.  kmalloc does
\* not clear the block and my_open never assigns ref, so ref keeps g.  (When
\* an allocation fails nothing reads ref again and g is taken as 0.)
OpenBody(h, name, b, p, g) ==
  LET data == IF p = NULL THEN NULL ELSE page_address(p)
      fr1 == IF p = NULL THEN frames ELSE get_zeroed_page(frames, p)
  IN
  IF b = NULL
  THEN \* info->data = ...: the store goes through a null info
       /\ frames' = fr1
       /\ UNCHANGED << files, infos, garbage >>
       /\ last' = Record("my_open", h, NULL, 0, OOPS, NULL)
  ELSE IF p = NULL
  THEN \* memcpy((char *)info->data, ...) with info->data = 0
       /\ infos' = [infos EXCEPT ![b] = [alloc |-> TRUE, data |-> NULL, ref |-> g]]
       /\ garbage' = [garbage EXCEPT ![b] = g]
       /\ UNCHANGED << files, frames >>
       /\ last' = Record("my_open", h, NULL, 0, OOPS, NULL)
  ELSE /\ infos' = [infos EXCEPT ![b] = [alloc |-> TRUE, data |-> data, ref |-> g]]
       /\ garbage' = [garbage EXCEPT ![b] = g]
       /\ frames' = [fr1 EXCEPT ![p].mem = WritePayload(@, name)]
       /\ files' = [files EXCEPT ![h] =
                      [@ EXCEPT !.open = TRUE, !.private_data = b]]
       /\ last' = Record("my_open", h, NULL, 0, RET_OK, NULL)

\* kmalloc and get_zeroed_page hand out the lowest free block or frame, or
\* fail (always, when none is free)
Lowest(S) == CHOOSE x \in S : \A y \in S : x <= y

kmalloc == {NULL} \cup (IF FreeBlocks = {} THEN {} ELSE {Lowest(FreeBlocks)})

\* one page shared by every open instead of a page per open
alloc_shared_page == {NULL, 1}

alloc_page == {NULL} \cup (IF FreeFrames = {} THEN {} ELSE {Lowest(FreeFrames)})

my_open(h) ==
  /\ AllIdle
  /\ ~files[h].open
  /\ \E b \in kmalloc, p \in alloc_page, g \in GarbageRef :
       /\ (b = NULL \/ p = NULL) => g = 0
       /\ OpenBody(h, files[h].d_name, b, p, g)
  /\ UNCHANGED << vmas, ctx >>

\* ------------------------------------------------------------ my_release
\* The platform holds a reference on the file for every VMA that maps it,
\* so release runs only once every region of the handle is gone.
my_release(h) ==
  /\ AllIdle
  /\ files[h].open
  /\ \A r \in Regions : vmas[r].file = h => ~Live(r)
  /\ LET info == files[h].private_data IN
       /\ frames' = free_page(frames, infos[info].data)
       /\ infos' = kfree(infos, info)
       /\ garbage' = [garbage EXCEPT ![info] = 0]
       /\ files' = [files EXCEPT ![h].open = FALSE, ![h].private_data = NULL]
       /\ UNCHANGED vmas
       /\ last' = [Record("my_release", h, NULL, 0, RET_OK, NULL)
                     EXCEPT !.ref = infos[info].ref]
  /\ UNCHANGED ctx

\* ------------------------------------------------------------ my_mmap
FreeSlots == {r \in Regions : vmas[r].state = "none"}

\* the largest value ref takes when no update is lost; no further interest
\* is handed out beyond it
RefCap == MaxGarbage + MaxRegions * (1 + MaxOpens)

\* a mapping built all at once: the page is bound when the region is set up
my_mmap_eager(h, r, npages, flags) ==
  /\ AllIdle
  /\ files[h].open
  /\ FreeSlots # {} /\ r = Lowest(FreeSlots)
  /\ infos[files[h].private_data].ref < RefCap
  /\ LET info == files[h].private_data IN
       /\ vmas' = [vmas EXCEPT ![r] =
                     [state |-> "live", file |-> h,
                      vm_start |-> MmapStart,
                      vm_end |-> MmapStart + npages * PAGE_SIZE,
                      vm_flags |-> flags \cup {VM_DONTEXPAND, VM_DONTDUMP},
                      vm_ops |-> my_vm_ops,
                      vm_private_data |-> info,
                      interests |-> 1, resolved |-> 1]]
       /\ infos' = [infos EXCEPT ![info].ref = RefInc(@)]
       /\ frames' = get_page(frames, virt_to_page(infos[info].data))
       /\ last' = Record("my_mmap", h, r, 0, RET_OK, virt_to_page(infos[info].data))
  /\ UNCHANGED << files, garbage, ctx >>

my_mmap(h, r, npages, flags) ==
  /\ AllIdle
  /\ files[h].open
  /\ FreeSlots # {} /\ r = Lowest(FreeSlots)
  /\ infos[files[h].private_data].ref < RefCap
  /\ LET info == files[h].private_data IN
       /\ vmas' = [vmas EXCEPT ![r] =
                     [state |-> "live", file |-> h,
                      vm_start |-> MmapStart,
                      vm_end |-> MmapStart + npages * PAGE_SIZE,
                      vm_flags |-> flags \cup {VM_DONTEXPAND, VM_DONTDUMP},
                      vm_ops |-> my_vm_ops,
                      vm_private_data |-> info,
                      interests |-> 1, resolved |-> 0]]
       /\ infos' = [infos EXCEPT ![info].ref = RefInc(@)]
       /\ last' = Record("my_mmap", h, r, 0, RET_OK, NULL)
  /\ UNCHANGED << files, frames, garbage, ctx >>

\* ------------------------------------------------------------ VMA open/close
my_vma_open(r) ==
  /\ AllIdle
  /\ Live(r)
  /\ vmas[r].vm_ops.open = "my_vma_open"
  /\ Interests(r) < 1 + MaxOpens
  /\ LET info == vmas[r].vm_private_data IN
       /\ infos' = [infos EXCEPT ![info].ref = RefInc(@)]
       /\ vmas' = [vmas EXCEPT ![r].interests = @ + 1]
       /\ last' = Record("my_vma_open", vmas[r].file, r, 0, RET_OK, NULL)
  /\ UNCHANGED << files, frames, garbage, ctx >>

\* The platform unmaps the resolved addresses of a region before it drops
\* the region's last interest; the region is then gone and its slot is free.
my_vma_close(r) ==
  /\ AllIdle
  /\ Live(r)
  /\ vmas[r].vm_ops.close = "my_vma_close"
  /\ Interests(r) = 1 => vmas[r].resolved = 0
  /\ LET info == vmas[r].vm_private_data IN
       /\ infos' = [infos EXCEPT ![info].ref = RefDec(@)]
       /\ vmas' = [vmas EXCEPT ![r] =
                     IF Interests(r) = 1 THEN NoVma ELSE [@ EXCEPT !.interests = @ - 1]]
       /\ last' = Record("my_vma_close", vmas[r].file, r, 0, RET_OK, NULL)
  /\ UNCHANGED << files, frames, garbage, ctx >>

\* ------------------------------------------------------------ my_vma_nopage
\* the range check with the wrong end of the range in it
AddrRejectedAtStart(vma, addr) == vma = NULL \/ addr > vmas[vma].vm_start

\* if(!vma || (unsigned long)vmf->virtual_address > vma->vm_end)
AddrRejected(vma, addr) == vma = NULL \/ addr > vmas[vma].vm_end

\* the fault addresses tried on a region: around both of its ends
FaultAddrs(r) ==
  {vmas[r].vm_start - 1, vmas[r].vm_start,
   vmas[r].vm_end - 1, vmas[r].vm_end, vmas[r].vm_end + 1}

\* a handler without the test of info->data
NoDataPoolUnchecked(data) == FALSE

\* if(!info->data)
NoDataPool(data) == data = NULL

\* err and vmf->page of my_vma_nopage, given the vma, the fault address and
\* what info->data holds (read only when the address was not rejected)
NopageResult(vma, addr, data) ==
  IF AddrRejected(vma, addr) \/ NoDataPool(data)
  THEN [ret |-> VM_FAULT_SIGBUS, page |-> NULL]
  ELSE [ret |-> RET_OK, page |-> virt_to_page(data)]

\* a handler that takes its reference on the page before it validates the
\* fault
NopageBodyCountsFirst(vma, addr) ==
  LET data == IF vma = NULL THEN NULL ELSE infos[vmas[vma].vm_private_data].data
      res == NopageResult(vma, addr, data)
  IN /\ last' = Record("my_vma_nopage", IF vma = NULL THEN NULL ELSE vmas[vma].file,
                       vma, addr, res.ret, res.page)
     /\ frames' = IF data = NULL THEN frames ELSE get_page(frames, virt_to_page(data))
     /\ vmas' = IF res.ret = RET_OK THEN [vmas EXCEPT ![vma].resolved = @ + 1]
                ELSE vmas

NopageBody(vma, addr) ==
  LET rejected == AddrRejected(vma, addr)
      data == IF rejected THEN NULL ELSE infos[vmas[vma].vm_private_data].data
      res == NopageResult(vma, addr, data)
  IN /\ last' = Record("my_vma_nopage", IF rejected THEN NULL ELSE vmas[vma].file,
                       vma, addr, res.ret, res.page)
     /\ IF res.ret = RET_OK
        THEN /\ frames' = get_page(frames, res.page)
             /\ vmas' = [vmas EXCEPT ![vma].resolved = @ + 1]
        ELSE UNCHANGED << frames, vmas >>

my_vma_nopage(vma, addr) ==
  /\ AllIdle
  /\ vma # NULL => /\ Live(vma)
                   /\ vmas[vma].vm_ops.fault = "my_vma_nopage"
                   /\ vmas[vma].resolved < MaxResolved
  /\ NopageBody(vma, addr)
  /\ UNCHANGED << files, infos, garbage, ctx >>

\* The platform drops one resolved address of a region (unmap or eviction).
PlatformUnmap(r) ==
  /\ AllIdle
  /\ Live(r)
  /\ vmas[r].resolved > 0
  /\ frames' = put_page(frames, virt_to_page(infos[vmas[r].vm_private_data].data))
  /\ vmas' = [vmas EXCEPT ![r].resolved = @ - 1]
  /\ last' = Record("unmap", vmas[r].file, r, 0, RET_OK, NULL)
  /\ UNCHANGED << files, infos, garbage, ctx >>

\* ------------------------------------------------------------ Spec
Next ==
  \/ \E h \in Handles : my_open(h)
  \/ \E h \in Handles : my_release(h)
  \/ \E h \in Handles, r \in Regions, n \in 1..MaxMapPages :
       my_mmap(h, r, n, ArrivalFlags)
  \/ \E r \in Regions : my_vma_open(r)
  \/ \E r \in Regions : my_vma_close(r)
  \/ \E r \in Regions : \E a \in FaultAddrs(r) : my_vma_nopage(r, a)
  \/ my_vma_nopage(NULL, 0)
  \/ \E r \in Regions : PlatformUnmap(r)

Spec == Init /\ [][Next]_vars

\* ------------------------------------------------------------ SpecRace
\* my_vma_open and my_vma_close run in several execution contexts at once
\* (copies of a mapping in different address spaces share one mmap_info).
\* info->ref++ and info->ref-- are a load of ref followed by a store.
RaceCall(c, r, op) ==
  /\ ctx[c].pc = "idle"
  /\ Live(r)
  /\ infos[vmas[r].vm_private_data].ref \in (0 - RefCap)..RefCap
  /\ IF op = "my_vma_open"
     THEN /\ vmas[r].vm_ops.open = op
          /\ Interests(r) < 1 + MaxOpens
          /\ vmas' = [vmas EXCEPT ![r].interests = @ + 1]
     ELSE /\ vmas[r].vm_ops.close = op
          /\ vmas' = [vmas EXCEPT ![r] =
                        IF Interests(r) = 1 THEN NoVma ELSE [@ EXCEPT !.interests = @ - 1]]
  /\ ctx' = [ctx EXCEPT ![c] =
               [IdleCtx EXCEPT !.pc = "load", !.op = op,
                               !.info = vmas[r].vm_private_data]]
  /\ last' = Record(op, vmas[r].file, r, 0, RET_OK, NULL)
  /\ UNCHANGED << files, infos, frames, garbage >>

RaceLoad(c) ==
  /\ ctx[c].pc = "load"
  /\ ctx' = [ctx EXCEPT ![c].pc = "store", ![c].tmp = infos[ctx[c].info].ref]
  /\ UNCHANGED << files, infos, frames, vmas, last, garbage >>

RaceStore(c) ==
  /\ ctx[c].pc = "store"
  /\ infos' = [infos EXCEPT ![ctx[c].info].ref =
                 IF ctx[c].op = "my_vma_open" THEN RefInc(ctx[c].tmp)
                 ELSE RefDec(ctx[c].tmp)]
  /\ ctx' = [ctx EXCEPT ![c] = IdleCtx]
  /\ UNCHANGED << files, frames, vmas, last, garbage >>

NextRace ==
  \/ my_open(1)
  \/ \E r \in Regions, n \in 1..MaxMapPages : my_mmap(1, r, n, ArrivalFlags)
  \/ \E c \in Ctxs, r \in Regions : RaceCall(c, r, "my_vma_open")
  \/ \E c \in Ctxs, r \in Regions : RaceCall(c, r, "my_vma_close")
  \/ \E c \in Ctxs : RaceLoad(c)
  \/ \E c \in Ctxs : RaceStore(c)

SpecRace == Init /\ [][NextRace]_vars

\* ------------------------------------------------------------ SpecFault
\* my_vma_nopage runs in several execution contexts at once (faults taken in
\* different address spaces on regions that share one mmap_info).  Each
\* context goes through the handler statement by statement; get_page is the
\* platform's atomic increment of the page's count.
InFlightOn(r) == Cardinality({c \in Ctxs : ctx[c].pc # "idle" /\ ctx[c].vma = r})

\* the fault is delivered: the handler is entered
FaultCall(c, r, addr) ==
  /\ ctx[c].pc = "idle"
  /\ Live(r)
  /\ vmas[r].vm_ops.fault = "my_vma_nopage"
  /\ vmas[r].resolved + InFlightOn(r) < MaxResolved
  /\ ctx' = [ctx EXCEPT ![c] =
               [IdleCtx EXCEPT !.pc = "check", !.op = "my_vma_nopage",
                               !.vma = r, !.addr = addr]]
  /\ UNCHANGED << files, infos, frames, vmas, last, garbage >>

\* line 76: the range check; line 82: info = vma->vm_private_data
FaultCheck(c) ==
  /\ ctx[c].pc = "check"
  /\ IF AddrRejected(ctx[c].vma, ctx[c].addr)
     THEN /\ last' = Record("my_vma_nopage", NULL, ctx[c].vma, ctx[c].addr,
                            VM_FAULT_SIGBUS, NULL)
          /\ ctx' = [ctx EXCEPT ![c] = IdleCtx]
     ELSE /\ ctx' = [ctx EXCEPT ![c].pc = "read",
                                ![c].info = vmas[ctx[c].vma].vm_private_data]
          /\ UNCHANGED last
  /\ UNCHANGED << files, infos, frames, vmas, garbage >>

\* line 83: the test of info->data; line 91: page = virt_to_page(info->data)
FaultRead(c) ==
  /\ ctx[c].pc = "read"
  /\ LET data == infos[ctx[c].info].data IN
       IF NoDataPool(data)
       THEN /\ last' = Record("my_vma_nopage", vmas[ctx[c].vma].file, ctx[c].vma,
                              ctx[c].addr, VM_FAULT_SIGBUS, NULL)
            /\ ctx' = [ctx EXCEPT ![c] = IdleCtx]
       ELSE /\ ctx' = [ctx EXCEPT ![c].pc = "get", ![c].page = virt_to_page(data)]
            /\ UNCHANGED last
  /\ UNCHANGED << files, infos, frames, vmas, garbage >>

\* line 92: get_page(page)
FaultGetPage(c) ==
  /\ ctx[c].pc = "get"
  /\ frames' = get_page(frames, ctx[c].page)
  /\ ctx' = [ctx EXCEPT ![c].pc = "bind"]
  /\ UNCHANGED << files, infos, vmas, last, garbage >>

\* line 93: vmf->page = page; line 96: return err; the platform maps the page
FaultReturn(c) ==
  /\ ctx[c].pc = "bind"
  /\ vmas' = [vmas EXCEPT ![ctx[c].vma].resolved = @ + 1]
  /\ last' = Record("my_vma_nopage", vmas[ctx[c].vma].file, ctx[c].vma,
                    ctx[c].addr, RET_OK, ctx[c].page)
  /\ ctx' = [ctx EXCEPT ![c] = IdleCtx]
  /\ UNCHANGED << files, infos, frames, garbage >>

NextFault ==
  \/ my_open(1)
  \/ \E r \in Regions, n \in 1..MaxMapPages : my_mmap(1, r, n, ArrivalFlags)
  \/ \E c \in Ctxs, r \in Regions : \E a \in FaultAddrs(r) : FaultCall(c, r, a)
  \/ \E c \in Ctxs : FaultCheck(c)
  \/ \E c \in Ctxs : FaultRead(c)
  \/ \E c \in Ctxs : FaultGetPage(c)
  \/ \E c \in Ctxs : FaultReturn(c)
  \/ \E r \in Regions : PlatformUnmap(r)

SpecFault == Init /\ [][NextFault]_vars

\* ------------------------------------------------------------ SpecPayload
\* my_open over the lengths of d_name.name, for the node of handle 1: the
\* short names, and the names that bring msg + name to the end of the page.
Fill(n) == [i \in 1..n |-> 97]

NameLens ==
  (0..MaxShortName)
    \cup ((PAGE_SIZE - strlen(msg) - NearPage)..(PAGE_SIZE - strlen(msg) + NearPage))

InitPayload ==
  /\ \E n \in NameLens :
       files = [h \in Handles |->
                 [open |-> FALSE, private_data |-> NULL,
                  d_name |-> IF h = 1 THEN Fill(n) ELSE NodeName(h)]]
  /\ infos = [b \in Blocks |-> NoInfo]
  /\ frames = [p \in Frames |-> NoFrame]
  /\ vmas = [r \in Regions |-> NoVma]
  /\ last = Record("init", NULL, NULL, 0, RET_OK, NULL)
  /\ garbage = [b \in Blocks |-> 0]
  /\ ctx = [c \in Ctxs |-> IdleCtx]

NextPayload ==
  \/ my_open(1)
  \/ my_release(1)

SpecPayload == InitPayload /\ [][NextPayload]_vars

\* ------------------------------------------------------------ claims
\* the handle a region was mapped from, and the frame that handle's
\* mmap_info owns
HandleOf(r) == vmas[r].file

OwnedFrame(h) == virt_to_page(infos[files[h].private_data].data)

FaultReturned == last.op = "my_vma_nopage" /\ last.vma # NULL

InRange(r, a) == vmas[r].vm_start <= a /\ a < vmas[r].vm_end

\* C1: a fault at an address inside [vm_start, vm_end) of a region of an
\* open handle returns success and binds the frame that handle's resource
\* owns, whatever the offset of the address in the region.
C1_InRangeFaultResolves ==
  (FaultReturned /\ InRange(last.vma, last.addr)) =>
     /\ files[HandleOf(last.vma)].open
     /\ last.ret = RET_OK
     /\ last.page = OwnedFrame(HandleOf(last.vma))
     /\ frames[last.page].alloc

\* C1 witness: a fault at the last byte of a region has been resolved
C1_Witness ==
  /\ FaultReturned
  /\ last.addr = vmas[last.vma].vm_end - 1
  /\ last.ret = RET_OK
  /\ last.page = OwnedFrame(HandleOf(last.vma))

\* C2: a fault at an address outside [vm_start, vm_end) (below vm_start, at
\* vm_end, above vm_end) signals VM_FAULT_SIGBUS and binds no page.
C2_OutOfRangeFaultRejected ==
  (FaultReturned /\ ~InRange(last.vma, last.addr)) =>
     (last.ret = VM_FAULT_SIGBUS /\ last.page = NULL)

\* C3: right after my_mmap returns for a region, the region's refCount is 1.
C3_RefCountOneAfterMmap ==
  last.op = "my_mmap" => RefCount(last.vma) = 1

\* C4: after onCreate and any onOpen / onClose calls, a region's refCount is
\* 1 + (onOpen calls so far) - (onClose calls so far).
C4_RefCountTracksInterests ==
  \A r \in Regions : Live(r) => RefCount(r) = Interests(r)

\* C5: refCount is never negative; a close at refCount 0 is reported as an
\* error instead of being carried out.
C5_NoRefCountUnderflow ==
  last.op = "my_vma_close" =>
     (infos[files[last.h].private_data].ref >= 0 \/ last.ret # RET_OK)

\* the blocks and frames no handle reaches any more
LeakedBlocks ==
  {b \in Blocks : infos[b].alloc /\ \A h \in Handles : files[h].private_data # b}

LeakedFrames ==
  {p \in Frames : frames[p].alloc /\
     \A h \in Handles : ~files[h].open \/ OwnedFrame(h) # p}

\* C6: when an allocation of my_open fails, open returns a resource
\* exhaustion error, writes nothing through the null pointer, attaches
\* nothing to the handle and leaks nothing.
C6_OpenFailsCleanly ==
  /\ last.op = "my_open" => last.ret \in {RET_OK, "ENOMEM"}
  /\ LeakedBlocks = {}
  /\ LeakedFrames = {}

\* the addresses currently resolved through the live regions of a handle
RECURSIVE SumResolved(_, _)
SumResolved(h, R) ==
  IF R = {} THEN 0
  ELSE LET r == Lowest(R) IN
         (IF Live(r) /\ vmas[r].file = h THEN vmas[r].resolved ELSE 0)
           + SumResolved(h, R \ {r})

\* a step in which my_vma_nopage resolved a fault
FaultResolvedStep == last'.op = "my_vma_nopage" /\ last'.ret = RET_OK

\* C7: a resolved fault raises the use-count of the resolved page by exactly
\* 1 and touches no other page; the page is the resource's page every time,
\* so k resolved faults stand for k references (the count of a handle's page
\* is 1 plus the addresses currently resolved through its regions), and the
\* resolver keeps no state of its own.
C7_OneReferencePerFault ==
  [][ /\ FaultResolvedStep =>
           /\ last'.page = OwnedFrame(HandleOf(last'.vma))
           /\ frames' = [frames EXCEPT ![last'.page].count = @ + 1]
           /\ infos' = infos
           /\ files' = files
      /\ \A h \in Handles :
           files'[h].open =>
             frames'[OwnedFrame(h)'].count = 1 + SumResolved(h, Regions)'
    ]_vars

\* C7 witness: the second fault of a region has just been resolved
C7_Witness ==
  /\ FaultReturned
  /\ last.ret = RET_OK
  /\ vmas[last.vma].resolved = 2
  /\ frames[last.page].count = 3

\* two open handles never share an mmap_info or a frame
DistinctResources ==
  \A h1, h2 \in Handles :
    (h1 # h2 /\ files[h1].open /\ files[h2].open) =>
       /\ files[h1].private_data # files[h2].private_data
       /\ OwnedFrame(h1) # OwnedFrame(h2)

\* C8: two open handles own distinct resources with distinct pages, and a
\* fault resolved through a region of one handle binds that handle's page
\* and leaves the other handle's page (content and use-count) and refCount
\* as they were.
C8_ResourceIsolation ==
  [][ /\ DistinctResources'
      /\ FaultResolvedStep =>
           /\ last'.page = OwnedFrame(HandleOf(last'.vma))
           /\ frames'[last'.page].mem = frames[last'.page].mem
           /\ \A h \in Handles :
                (h # HandleOf(last'.vma) /\ files[h].open) =>
                   /\ last'.page # OwnedFrame(h)
                   /\ frames'[OwnedFrame(h)] = frames[OwnedFrame(h)]
                   /\ infos'[files[h].private_data] = infos[files[h].private_data]
    ]_vars

\* C8 witness: a fault has just been resolved through a region of one handle
\* while the other handle is open and mapped too
C8_Witness ==
  /\ FaultReturned
  /\ last.ret = RET_OK
  /\ \E r \in Regions :
       /\ Live(r)
       /\ HandleOf(r) # HandleOf(last.vma)
       /\ files[HandleOf(r)].open
       /\ vmas[r].resolved > 0

\* msg followed by the name, cut at the end of the page
TruncatedPayload(name) ==
  LET full == msg \o name IN
    SubSeq(full, 1, IF Len(full) < PAGE_SIZE THEN Len(full) ELSE PAGE_SIZE)

\* C9: after a successful open the page holds msg followed by the name, cut
\* so that nothing is written at an offset >= PAGE_SIZE, and every byte
\* after the payload is zero.
C9_PayloadFitsPage ==
  \A h \in Handles :
    files[h].open =>
      LET mem == frames[OwnedFrame(h)].mem
          want == TruncatedPayload(files[h].d_name)
      IN /\ \A i \in DOMAIN mem : i < PAGE_SIZE
         /\ \A i \in 0..(PAGE_SIZE - 1) :
              ByteAt(mem, i) = IF i < Len(want) THEN want[i + 1] ELSE 0

\* the interests the platform holds in the live regions of a handle
RECURSIVE SumInterests(_, _)
SumInterests(h, R) ==
  IF R = {} THEN 0
  ELSE LET r == Lowest(R) IN
         (IF Live(r) /\ vmas[r].file = h THEN Interests(r) ELSE 0)
           + SumInterests(h, R \ {r})

\* C10: with my_vma_open / my_vma_close delivered concurrently, no update of
\* ref is lost: once every call has returned, ref is its initial value plus
\* the interests taken minus the interests dropped.
C10_NoLostUpdate ==
  AllIdle =>
    \A h \in Handles :
      files[h].open =>
        infos[files[h].private_data].ref =
          garbage[files[h].private_data] + SumInterests(h, Regions)

\* the faults of a handle that have taken their reference on the page and
\* have not returned yet
InFlight(h) ==
  Cardinality({c \in Ctxs : ctx[c].pc = "bind" /\ ctx[c].info = files[h].private_data})

\* a step of my_vma_nopage in some context, and the step in which it returns
FaultStep == ctx' # ctx

FaultReturns(c) == ctx[c].pc # "idle" /\ ctx'[c].pc = "idle"

\* C11: with my_vma_nopage running concurrently for regions that share one
\* mmap_info, under every interleaving of the handlers' statements: a fault
\* inside its region returns success with the handle's single page; every
\* fault that took its reference raised the page's count by exactly 1 (two
\* of them by exactly 2: the count is 1 + the addresses resolved + the faults
\* between get_page and return); and no statement of the handler changes
\* info->data, info->ref or the content of the page.
C11_ConcurrentFaultsIndependent ==
  [][ /\ FaultStep =>
           /\ infos' = infos
           /\ files' = files
           /\ \A p \in Frames :
                /\ frames'[p].mem = frames[p].mem
                /\ frames'[p].alloc = frames[p].alloc
      /\ \A c \in Ctxs :
           (FaultReturns(c) /\ InRange(ctx[c].vma, ctx[c].addr)) =>
              /\ last'.ret = RET_OK
              /\ last'.vma = ctx[c].vma
              /\ last'.page = OwnedFrame(HandleOf(ctx[c].vma))
      /\ \A h \in Handles :
           files'[h].open =>
             frames'[OwnedFrame(h)'].count =
               1 + SumResolved(h, Regions)' + InFlight(h)'
    ]_vars

\* C11 witness: two contexts are between get_page and return at once, for
\* two different regions of one handle and addresses inside them, and the
\* page's count has risen by 2
C11_Witness ==
  \E c1, c2 \in Ctxs :
    /\ c1 # c2
    /\ ctx[c1].pc = "bind" /\ ctx[c2].pc = "bind"
    /\ ctx[c1].vma # ctx[c2].vma
    /\ ctx[c1].info = ctx[c2].info
    /\ InRange(ctx[c1].vma, ctx[c1].addr) /\ InRange(ctx[c2].vma, ctx[c2].addr)
    /\ ctx[c1].page = ctx[c2].page
    /\ frames[ctx[c1].page].count = 3

\* a step in which the handle h is closed
ReleaseStep(h) == files[h].open /\ ~files'[h].open

\* the platform may deliver the close of h: the handle is open and none of
\* its regions is left
MayRelease(h) ==
  /\ AllIdle
  /\ files[h].open
  /\ \A r \in Regions : vmas[r].file = h => ~Live(r)

\* C12: my_release frees the page and the mmap_info of the handle and clears
\* filp->private_data, returns 0 every time, and does so whatever ref holds:
\* it can run whenever the platform may deliver the close, and afterwards
\* the handle references no resource.
C12_ReleaseUnconditional ==
  [][ /\ \A h \in Handles :
           ReleaseStep(h) =>
              /\ last'.op = "my_release" /\ last'.h = h
              /\ last'.ret = RET_OK
              /\ files'[h].private_data = NULL
              /\ ~infos'[files[h].private_data].alloc
              /\ ~frames'[OwnedFrame(h)].alloc
      /\ \A h \in Handles : MayRelease(h) => ENABLED my_release(h)
    ]_vars

\* C12 witness: a handle has just been released while ref held 1, and its
\* page and block are free
C12_Witness ==
  /\ last.op = "my_release"
  /\ last.ref > 0
  /\ ~files[last.h].open
  /\ files[last.h].private_data = NULL
  /\ \A p \in Frames : ~frames[p].alloc
  /\ \A b \in Blocks : ~infos[b].alloc

\* every page my_open allocated and nobody freed yet is the page of an open
\* handle, whose release will free it
NoLeakedPage == LeakedFrames = {}

\* what my_release will pass to free_page and kfree is allocated: nothing is
\* freed a second time
NoDoubleFree ==
  \A h \in Handles :
    files[h].open =>
      /\ infos[files[h].private_data].alloc
      /\ frames[OwnedFrame(h)].alloc
      /\ frames[OwnedFrame(h)].count >= 1

\* what my_vma_open, my_vma_close and my_vma_nopage read through
\* vma->vm_private_data is the mmap_info of a handle that is still open
NoUseAfterRelease ==
  \A r \in Regions :
    Live(r) =>
      /\ files[HandleOf(r)].open
      /\ vmas[r].vm_private_data = files[HandleOf(r)].private_data
      /\ infos[vmas[r].vm_private_data].alloc

\* C13: with release delivered only after every region of the handle is
\* gone and no fault or mmap delivered for a closed handle, each page that
\* my_open allocated is freed exactly once (never twice, none left without
\* a release that will free it) and no VMA handler reads a released
\* mmap_info.
C13_PagesFreedOnce ==
  /\ NoLeakedPage
  /\ NoDoubleFree
  /\ NoUseAfterRelease

\* a step in which my_vma_nopage returned VM_FAULT_SIGBUS
FaultRejectedStep == last'.op = "my_vma_nopage" /\ last'.ret = VM_FAULT_SIGBUS

\* what my_vma_nopage returns for a region whose mmap_info has no page
NoPageOutcome(r, a) == NopageResult(r, a, NULL)

\* C14: whenever my_vma_nopage returns VM_FAULT_SIGBUS (vma absent, address
\* rejected, or info->data null) it has bound no page and has changed no
\* page's count, no ref and nothing of the mmap_info, the handle or the
\* region.
C14_BusErrorNoSideEffect ==
  [][ /\ FaultRejectedStep =>
           /\ last'.page = NULL
           /\ frames' = frames
           /\ infos' = infos
           /\ files' = files
           /\ vmas' = vmas
           /\ garbage' = garbage
      /\ \A r \in Regions : \A a \in FaultAddrs(r) :
           NoPageOutcome(r, a).ret = VM_FAULT_SIGBUS => NoPageOutcome(r, a).page = NULL
    ]_vars

\* C14 witness: a fault above vm_end has just been rejected on a region that
\* has one address resolved, and the page's count is still 2
C14_Witness ==
  /\ FaultReturned
  /\ last.ret = VM_FAULT_SIGBUS
  /\ last.page = NULL
  /\ last.addr > vmas[last.vma].vm_end
  /\ vmas[last.vma].resolved = 1
  /\ SumResolved(HandleOf(last.vma), Regions) = 1
  /\ frames[OwnedFrame(HandleOf(last.vma))].count = 2

\* C15: my_vma_nopage answers VM_FAULT_SIGBUS with no page for a region
\* whose mmap_info has no page, whatever the address; and no live region is
\* ever in that case (its info->data is an allocated page), so every
\* VM_FAULT_SIGBUS returned for a region comes from the address check.
C15_NoPageCheckUnreachable ==
  /\ \A r \in Regions : \A a \in FaultAddrs(r) :
       (Live(r) /\ ~AddrRejected(r, a)) =>
          NoPageOutcome(r, a) = [ret |-> VM_FAULT_SIGBUS, page |-> NULL]
  /\ \A r \in Regions :
       Live(r) =>
          /\ ~NoDataPool(infos[vmas[r].vm_private_data].data)
          /\ frames[virt_to_page(infos[vmas[r].vm_private_data].data)].alloc
  /\ (FaultReturned /\ last.ret = VM_FAULT_SIGBUS) =>
        AddrRejected(last.vma, last.addr)

\* C15 witness: a fault at vm_start has passed the test of info->data and
\* has been resolved
C15_Witness ==
  /\ FaultReturned
  /\ last.addr = vmas[last.vma].vm_start
  /\ last.ret = RET_OK
  /\ ~NoDataPool(infos[vmas[last.vma].vm_private_data].data)
  /\ last.page = virt_to_page(infos[vmas[last.vma].vm_private_data].data)

\* the handlers that keep the count of interests
RefHandlers == {"my_mmap", "my_vma_open", "my_vma_close"}

\* C16: my_mmap, my_vma_open and my_vma_close bind no page and change no
\* page's count; the count of a page that stays allocated rises only in a
\* resolved fault, by 1, on the page bound; my_vma_nopage, resolved or not,
\* changes no ref; and the ref of an mmap_info that stays allocated changes
\* only in my_mmap, my_vma_open and my_vma_close.
C16_LazyAndIndependent ==
  [][ /\ last'.op \in RefHandlers =>
           /\ frames' = frames
           /\ last'.page = NULL
           /\ vmas'[last'.vma].resolved = vmas[last'.vma].resolved
      /\ last'.op = "my_vma_nopage" => infos' = infos
      /\ \A p \in Frames :
           (frames[p].alloc /\ frames'[p].alloc /\ frames'[p].count > frames[p].count) =>
              /\ FaultResolvedStep
              /\ last'.page = p
              /\ frames'[p].count = frames[p].count + 1
      /\ \A b \in Blocks :
           (infos[b].alloc /\ infos'[b].alloc /\ infos'[b].ref # infos[b].ref) =>
              last'.op \in RefHandlers
    ]_vars

\* C16 witness: a region has been mapped, faulted once, duplicated, and one
\* of its two interests has just been closed: the page's count is 2, from
\* the fault alone
C16_Witness ==
  /\ last.op = "my_vma_close"
  /\ Live(last.vma)
  /\ Interests(last.vma) = 1
  /\ vmas[last.vma].resolved = 1
  /\ SumResolved(HandleOf(last.vma), Regions) = 1
  /\ frames[OwnedFrame(HandleOf(last.vma))].count = 2

\* C17: my_mmap on an open handle sets the region's vm_private_data to that
\* handle's mmap_info, installs my_vm_ops (open, close, fault), adds
\* VM_DONTEXPAND and VM_DONTDUMP to vm_flags and keeps the flags the VMA
\* arrived with, and raises ref by exactly 1: the mapping is one interest
\* and nothing else is counted for it or changed.
C17_EstablishMapping ==
  [][ last'.op = "my_mmap" =>
        LET r == last'.vma
            h == last'.h
            info == files[h].private_data
        IN /\ files[h].open /\ files' = files
           /\ vmas'[r].state = "live"
           /\ vmas'[r].file = h
           /\ vmas'[r].vm_private_data = info
           /\ vmas'[r].vm_ops =
                [open |-> "my_vma_open", close |-> "my_vma_close",
                 fault |-> "my_vma_nopage"]
           /\ {VM_DONTEXPAND, VM_DONTDUMP} \subseteq vmas'[r].vm_flags
           /\ vmas'[r].vm_flags \ {VM_DONTEXPAND, VM_DONTDUMP} =
                ArrivalFlags \ {VM_DONTEXPAND, VM_DONTDUMP}
           /\ infos'[info].ref = infos[info].ref + 1
           /\ infos'[info].data = infos[info].data
           /\ \A b \in Blocks \ {info} : infos'[b] = infos[b]
           /\ vmas'[r].interests = 1
           /\ \A r2 \in Regions \ {r} : vmas'[r2] = vmas[r2]
    ]_vars

\* C17 witness: the second region of a handle has just been mapped, with
\* both flags set, and ref stands one above what the first mapping left
C17_Witness ==
  /\ last.op = "my_mmap"
  /\ last.ret = RET_OK
  /\ vmas[last.vma].vm_flags = ArrivalFlags \cup {VM_DONTEXPAND, VM_DONTDUMP}
  /\ vmas[last.vma].vm_private_data = files[last.h].private_data
  /\ \E r \in Regions \ {last.vma} : Live(r) /\ HandleOf(r) = last.h /\ Interests(r) = 1
  /\ RefCount(last.vma) = garbage[files[last.h].private_data] + 2

\* the page as my_open leaves it for a node name
PayloadOf(name) == WritePayload(NoBytes, name)

\* C18: from the return of my_open to the call of my_release, no handler
\* writes to the bytes of the handle's page or changes info->data or
\* filp->private_data: the page holds what my_open wrote and the mmap_info
\* owns the page my_open gave it.
C18_PageImmutable ==
  [][ \A h \in Handles :
        (files[h].open /\ files'[h].open) =>
           /\ files'[h].private_data = files[h].private_data
           /\ infos'[files[h].private_data].data = infos[files[h].private_data].data
           /\ frames'[OwnedFrame(h)].alloc
           /\ frames'[OwnedFrame(h)].mem = frames[OwnedFrame(h)].mem
           /\ frames'[OwnedFrame(h)].mem = PayloadOf(files[h].d_name)
    ]_vars

\* C18 witness: a handle has been mapped, its region duplicated and faulted
\* twice, and the page still holds the payload of my_open
C18_Witness ==
  /\ FaultReturned
  /\ last.ret = RET_OK
  /\ Interests(last.vma) = 2
  /\ vmas[last.vma].resolved = 2
  /\ frames[last.page].mem = PayloadOf(files[HandleOf(last.vma)].d_name)
  /\ infos[vmas[last.vma].vm_private_data].data = page_address(last.page)

\* what a handler of RefHandlers adds to ref
RefDelta(op) == IF op = "my_vma_close" THEN 0 - 1 ELSE 1

\* C19: ref is one counter per open handle, in the mmap_info that every
\* region of the handle reaches through vm_private_data: its change since
\* my_open is the sum over the handle's regions of my_mmap + my_vma_open -
\* my_vma_close calls, and a my_mmap, my_vma_open or my_vma_close for one
\* region changes the count read through every other region of the handle.
C19_CounterPerHandle ==
  [][ /\ \A h \in Handles :
           files'[h].open =>
             infos'[files'[h].private_data].ref - garbage'[files'[h].private_data]
               = SumInterests(h, Regions)'
      /\ last'.op \in RefHandlers =>
           \A r2 \in Regions :
             (Live(r2) /\ HandleOf(r2) = last'.h /\ r2 # last'.vma) =>
                /\ vmas'[r2] = vmas[r2]
                /\ RefCount(r2)' = RefCount(r2) + RefDelta(last'.op)
    ]_vars

\* C19 witness: a handle has two regions; my_vma_open has just run for one
\* of them, and ref read through the other, which has had a single
\* interest all along, stands 3 above its initial value
C19_Witness ==
  /\ last.op = "my_vma_open"
  /\ Interests(last.vma) = 2
  /\ \E r2 \in Regions \ {last.vma} :
       /\ Live(r2)
       /\ HandleOf(r2) = last.h
       /\ vmas[r2].vm_private_data = vmas[last.vma].vm_private_data
       /\ Interests(r2) = 1
       /\ RefCount(r2) = garbage[vmas[r2].vm_private_data] + 3

=============================================================================
